---- MODULE Spec2Model ----
\* A model of file_organiser_lite.py: the FileOrganizer class (category table,
\* organize_files, list_files_by_type, create_custom_category) acting on one
\* target directory.  File names are strings; pathlib's suffix/stem split,
\* str.lower() and the f-string that builds collision names are computed on
\* their characters.
EXTENDS Integers, Sequences, FiniteSets, TLC

\* ---------------------------------------------------------------------------
\* Bounds
\* ---------------------------------------------------------------------------
\* largest number of direct files in the target directory at start
MaxFiles == 2
\* number of successive calls (organize_files / list_files_by_type) in a run
MaxCalls == 2
\* number of times the environment makes shutil.move raise in a run
MaxFaults == 1
\* number of create_custom_category calls in a run of SpecTable
MaxRegs == 2

\* ---------------------------------------------------------------------------
\* The default category table of __init__
\* ---------------------------------------------------------------------------
\* self.file_types: a dict, modelled as the sequence of its items in
\* insertion order
DefaultTable ==
    << [category |-> "Images", extensions |->
          << ".jpg", ".jpeg", ".png", ".gif", ".bmp", ".svg", ".webp" >>],
       [category |-> "Documents", extensions |->
          << ".pdf", ".doc", ".docx", ".txt", ".rtf", ".xls", ".xlsx", ".ppt", ".pptx" >>],
       [category |-> "Audio", extensions |->
          << ".mp3", ".wav", ".flac", ".aac", ".ogg" >>],
       [category |-> "Video", extensions |->
          << ".mp4", ".avi", ".mov", ".wmv", ".flv", ".webm" >>],
       [category |-> "Archives", extensions |->
          << ".zip", ".rar", ".7z", ".tar", ".gz" >>],
       [category |-> "Code", extensions |->
          << ".py", ".js", ".html", ".css", ".java", ".cpp", ".c", ".php", ".json", ".xml" >>],
       [category |-> "Executables", extensions |->
          << ".exe", ".msi", ".dmg", ".pkg", ".deb" >>] >>

\* the sentinel returned by get_file_category when nothing matches
Other == "Other"

\* ---------------------------------------------------------------------------
\* Names used as inputs
\* ---------------------------------------------------------------------------
\* candidate direct files of the target directory, in a fixed order that
\* gives each file its identity (its index)
FileNames == << "A.PNG", "b.txt", "c.xyz", "photo.jpg", "photo_1.jpg", "Other" >>
\* category subfolders that may be present at the start
DirNames == {"Images"}
\* a direct subdirectory that is no category folder, always present
OtherDirs == {"sub"}
\* candidate names already present inside a category subfolder
PreNames == << "photo.jpg", "photo_1.jpg" >>

\* ---------------------------------------------------------------------------
\* Strings: str.lower(), decimal formatting, pathlib suffix and stem
\* ---------------------------------------------------------------------------
\* The characters of every string that the string operations below read or
\* build: the file names above, their stems and suffixes, the suffixes in
\* lower case, and the names stem_k.ext for k up to 3 (and, for the photo
\* names, the same once more).  A string outside this table is an evaluation
\* error, never a silent result.
CharsOf ==
    ("" :> <<>>) @@
    (".PNG" :> <<".", "P", "N", "G">>) @@
    (".jpg" :> <<".", "j", "p", "g">>) @@
    (".png" :> <<".", "p", "n", "g">>) @@
    (".txt" :> <<".", "t", "x", "t">>) @@
    (".xyz" :> <<".", "x", "y", "z">>) @@
    ("A" :> <<"A">>) @@
    ("A.PNG" :> <<"A", ".", "P", "N", "G">>) @@
    ("A_1" :> <<"A", "_", "1">>) @@
    ("A_1.PNG" :> <<"A", "_", "1", ".", "P", "N", "G">>) @@
    ("A_2" :> <<"A", "_", "2">>) @@
    ("A_2.PNG" :> <<"A", "_", "2", ".", "P", "N", "G">>) @@
    ("A_3" :> <<"A", "_", "3">>) @@
    ("A_3.PNG" :> <<"A", "_", "3", ".", "P", "N", "G">>) @@
    ("Documents" :> <<"D", "o", "c", "u", "m", "e", "n", "t", "s">>) @@
    ("Images" :> <<"I", "m", "a", "g", "e", "s">>) @@
    ("Other" :> <<"O", "t", "h", "e", "r">>) @@
    ("Other_1" :> <<"O", "t", "h", "e", "r", "_", "1">>) @@
    ("Other_2" :> <<"O", "t", "h", "e", "r", "_", "2">>) @@
    ("Other_3" :> <<"O", "t", "h", "e", "r", "_", "3">>) @@
    ("b" :> <<"b">>) @@
    ("b.txt" :> <<"b", ".", "t", "x", "t">>) @@
    ("b_1" :> <<"b", "_", "1">>) @@
    ("b_1.txt" :> <<"b", "_", "1", ".", "t", "x", "t">>) @@
    ("b_2" :> <<"b", "_", "2">>) @@
    ("b_2.txt" :> <<"b", "_", "2", ".", "t", "x", "t">>) @@
    ("b_3" :> <<"b", "_", "3">>) @@
    ("b_3.txt" :> <<"b", "_", "3", ".", "t", "x", "t">>) @@
    ("c" :> <<"c">>) @@
    ("c.xyz" :> <<"c", ".", "x", "y", "z">>) @@
    ("c_1" :> <<"c", "_", "1">>) @@
    ("c_1.xyz" :> <<"c", "_", "1", ".", "x", "y", "z">>) @@
    ("c_2" :> <<"c", "_", "2">>) @@
    ("c_2.xyz" :> <<"c", "_", "2", ".", "x", "y", "z">>) @@
    ("c_3" :> <<"c", "_", "3">>) @@
    ("c_3.xyz" :> <<"c", "_", "3", ".", "x", "y", "z">>) @@
    ("photo" :> <<"p", "h", "o", "t", "o">>) @@
    ("photo.jpg" :> <<"p", "h", "o", "t", "o", ".", "j", "p", "g">>) @@
    ("photo_1" :> <<"p", "h", "o", "t", "o", "_", "1">>) @@
    ("photo_1.jpg" :> <<"p", "h", "o", "t", "o", "_", "1", ".", "j", "p", "g">>) @@
    ("photo_1_1" :> <<"p", "h", "o", "t", "o", "_", "1", "_", "1">>) @@
    ("photo_1_1.jpg" :> <<"p", "h", "o", "t", "o", "_", "1", "_", "1", ".", "j", "p", "g">>) @@
    ("photo_1_1_1" :> <<"p", "h", "o", "t", "o", "_", "1", "_", "1", "_", "1">>) @@
    ("photo_1_1_1.jpg" :> <<"p", "h", "o", "t", "o", "_", "1", "_", "1", "_", "1", ".", "j", "p", "g">>) @@
    ("photo_1_1_2" :> <<"p", "h", "o", "t", "o", "_", "1", "_", "1", "_", "2">>) @@
    ("photo_1_1_2.jpg" :> <<"p", "h", "o", "t", "o", "_", "1", "_", "1", "_", "2", ".", "j", "p", "g">>) @@
    ("photo_1_1_3" :> <<"p", "h", "o", "t", "o", "_", "1", "_", "1", "_", "3">>) @@
    ("photo_1_1_3.jpg" :> <<"p", "h", "o", "t", "o", "_", "1", "_", "1", "_", "3", ".", "j", "p", "g">>) @@
    ("photo_1_2" :> <<"p", "h", "o", "t", "o", "_", "1", "_", "2">>) @@
    ("photo_1_2.jpg" :> <<"p", "h", "o", "t", "o", "_", "1", "_", "2", ".", "j", "p", "g">>) @@
    ("photo_1_2_1" :> <<"p", "h", "o", "t", "o", "_", "1", "_", "2", "_", "1">>) @@
    ("photo_1_2_1.jpg" :> <<"p", "h", "o", "t", "o", "_", "1", "_", "2", "_", "1", ".", "j", "p", "g">>) @@
    ("photo_1_2_2" :> <<"p", "h", "o", "t", "o", "_", "1", "_", "2", "_", "2">>) @@
    ("photo_1_2_2.jpg" :> <<"p", "h", "o", "t", "o", "_", "1", "_", "2", "_", "2", ".", "j", "p", "g">>) @@
    ("photo_1_2_3" :> <<"p", "h", "o", "t", "o", "_", "1", "_", "2", "_", "3">>) @@
    ("photo_1_2_3.jpg" :> <<"p", "h", "o", "t", "o", "_", "1", "_", "2", "_", "3", ".", "j", "p", "g">>) @@
    ("photo_1_3" :> <<"p", "h", "o", "t", "o", "_", "1", "_", "3">>) @@
    ("photo_1_3.jpg" :> <<"p", "h", "o", "t", "o", "_", "1", "_", "3", ".", "j", "p", "g">>) @@
    ("photo_1_3_1" :> <<"p", "h", "o", "t", "o", "_", "1", "_", "3", "_", "1">>) @@
    ("photo_1_3_1.jpg" :> <<"p", "h", "o", "t", "o", "_", "1", "_", "3", "_", "1", ".", "j", "p", "g">>) @@
    ("photo_1_3_2" :> <<"p", "h", "o", "t", "o", "_", "1", "_", "3", "_", "2">>) @@
    ("photo_1_3_2.jpg" :> <<"p", "h", "o", "t", "o", "_", "1", "_", "3", "_", "2", ".", "j", "p", "g">>) @@
    ("photo_1_3_3" :> <<"p", "h", "o", "t", "o", "_", "1", "_", "3", "_", "3">>) @@
    ("photo_1_3_3.jpg" :> <<"p", "h", "o", "t", "o", "_", "1", "_", "3", "_", "3", ".", "j", "p", "g">>) @@
    ("photo_2" :> <<"p", "h", "o", "t", "o", "_", "2">>) @@
    ("photo_2.jpg" :> <<"p", "h", "o", "t", "o", "_", "2", ".", "j", "p", "g">>) @@
    ("photo_2_1" :> <<"p", "h", "o", "t", "o", "_", "2", "_", "1">>) @@
    ("photo_2_1.jpg" :> <<"p", "h", "o", "t", "o", "_", "2", "_", "1", ".", "j", "p", "g">>) @@
    ("photo_2_2" :> <<"p", "h", "o", "t", "o", "_", "2", "_", "2">>) @@
    ("photo_2_2.jpg" :> <<"p", "h", "o", "t", "o", "_", "2", "_", "2", ".", "j", "p", "g">>) @@
    ("photo_2_3" :> <<"p", "h", "o", "t", "o", "_", "2", "_", "3">>) @@
    ("photo_2_3.jpg" :> <<"p", "h", "o", "t", "o", "_", "2", "_", "3", ".", "j", "p", "g">>) @@
    ("photo_3" :> <<"p", "h", "o", "t", "o", "_", "3">>) @@
    ("photo_3.jpg" :> <<"p", "h", "o", "t", "o", "_", "3", ".", "j", "p", "g">>) @@
    ("photo_3_1" :> <<"p", "h", "o", "t", "o", "_", "3", "_", "1">>) @@
    ("photo_3_1.jpg" :> <<"p", "h", "o", "t", "o", "_", "3", "_", "1", ".", "j", "p", "g">>) @@
    ("photo_3_2" :> <<"p", "h", "o", "t", "o", "_", "3", "_", "2">>) @@
    ("photo_3_2.jpg" :> <<"p", "h", "o", "t", "o", "_", "3", "_", "2", ".", "j", "p", "g">>) @@
    ("photo_3_3" :> <<"p", "h", "o", "t", "o", "_", "3", "_", "3">>) @@
    ("photo_3_3.jpg" :> <<"p", "h", "o", "t", "o", "_", "3", "_", "3", ".", "j", "p", "g">>) @@
    ("sub" :> <<"s", "u", "b">>)

\* a string as the sequence of its characters
Chars(s) == CharsOf[s]
\* the string made of a sequence of characters
Str(cs) == CHOOSE s \in DOMAIN CharsOf : CharsOf[s] = cs

UpperChars ==
    << "A", "B", "C", "D", "E", "F", "G", "H", "I", "J", "K", "L", "M",
       "N", "O", "P", "Q", "R", "S", "T", "U", "V", "W", "X", "Y", "Z" >>
LowerChars ==
    << "a", "b", "c", "d", "e", "f", "g", "h", "i", "j", "k", "l", "m",
       "n", "o", "p", "q", "r", "s", "t", "u", "v", "w", "x", "y", "z" >>
Digits == << "0", "1", "2", "3", "4", "5", "6", "7", "8", "9" >>

\* str.lower() on one character
LowerChar(c) ==
    IF \E i \in 1..Len(UpperChars) : UpperChars[i] = c
    THEN LowerChars[CHOOSE i \in 1..Len(UpperChars) : UpperChars[i] = c]
    ELSE c

\* str.lower()
lower(s) == Str([i \in 1..Len(Chars(s)) |-> LowerChar(Chars(s)[i])])

\* str(counter) inside the f-string: decimal digits, most significant first
RECURSIVE Decimal(_)
Decimal(n) ==
    IF n < 10 THEN << Digits[n + 1] >>
    ELSE Decimal(n \div 10) \o << Digits[(n % 10) + 1] >>

\* name.rfind('.') on a sequence of characters, as a 1-based position; 0
\* when there is no dot
RFindDot(cs) ==
    IF \E i \in 1..Len(cs) : cs[i] = "."
    THEN CHOOSE i \in 1..Len(cs) :
            /\ cs[i] = "."
            /\ \A j \in (i + 1)..Len(cs) : cs[j] # "."
    ELSE 0

\* PurePath.suffix and PurePath.stem on a sequence of characters: the suffix
\* is the last dot and what follows it, unless that dot is the first or the
\* last character of the name; the stem is the rest
SuffixChars(cs) ==
    LET i == RFindDot(cs) IN
    IF 1 < i /\ i < Len(cs) THEN SubSeq(cs, i, Len(cs)) ELSE <<>>
StemChars(cs) ==
    LET i == RFindDot(cs) IN
    IF 1 < i /\ i < Len(cs) THEN SubSeq(cs, 1, i - 1) ELSE cs

\* file_path.suffix
suffix(name) == Str(SuffixChars(Chars(name)))
\* file_path.stem
stem(name) == Str(StemChars(Chars(name)))

\* f"{base_name}_{counter}{extension}", as characters
NewNameChars(base_name, counter, extension) ==
    Chars(base_name) \o << "_" >> \o Decimal(counter) \o Chars(extension)

\* f"{base_name}_{counter}{extension}"
new_name(base_name, counter, extension) ==
    Str(NewNameChars(base_name, counter, extension))

\* ---------------------------------------------------------------------------
\* Category lookup and registration
\* ---------------------------------------------------------------------------
\* `extension in extensions` on a Python list
InList(e, list) == \E i \in 1..Len(list) : list[i] = e

\* a lookup in which a later item of the dict overrides an earlier match
get_file_category_last_match(table, extension) ==
    IF \E i \in 1..Len(table) : InList(extension, table[i].extensions)
    THEN table[CHOOSE i \in 1..Len(table) :
                 /\ InList(extension, table[i].extensions)
                 /\ \A j \in (i + 1)..Len(table) :
                        ~InList(extension, table[j].extensions)].category
    ELSE Other

\* get_file_category: the first item of the dict whose list holds the
\* extension, "Other" when no item does
get_file_category(table, extension) ==
    IF \E i \in 1..Len(table) : InList(extension, table[i].extensions)
    THEN table[CHOOSE i \in 1..Len(table) :
                 /\ InList(extension, table[i].extensions)
                 /\ \A j \in 1..(i - 1) :
                        ~InList(extension, table[j].extensions)].category
    ELSE Other

\* self.file_types[category_name] = extensions: an existing key keeps its
\* place in the dict and gets the new list, a new key goes to the end
SetItem(table, category_name, extensions) ==
    IF \E i \in 1..Len(table) : table[i].category = category_name
    THEN [i \in 1..Len(table) |->
            IF table[i].category = category_name
            THEN [category |-> category_name, extensions |-> extensions]
            ELSE table[i]]
    ELSE Append(table, [category |-> category_name,
                        extensions |-> extensions])

\* ---------------------------------------------------------------------------
\* The filesystem under the target directory
\* ---------------------------------------------------------------------------
\* A directory's content is a function from entry names to nodes.  A direct
\* entry of the target directory is a file (with the identity of its content)
\* or a subdirectory (with its own entries: name -> identity).
EmptyDir == [n \in {} |-> 0]
FileNode(id) == [kind |-> "file", id |-> id, ents |-> EmptyDir]
DirNode(ents) == [kind |-> "dir", id |-> 0, ents |-> ents]

\* Path.is_file() on a direct entry
is_file(ents, name) == name \in DOMAIN ents /\ ents[name].kind = "file"
\* Path.is_dir() on a direct entry
is_dir(ents, name) == name \in DOMAIN ents /\ ents[name].kind = "dir"

\* Path.mkdir(exist_ok=True) raises FileExistsError when the path exists and
\* is not a directory
mkdir_raises(ents, name) == name \in DOMAIN ents /\ ~is_dir(ents, name)

\* Path.mkdir(exist_ok=True) when it does not raise
mkdir(ents, name) ==
    IF name \in DOMAIN ents THEN ents ELSE ents @@ (name :> DirNode(EmptyDir))

\* target_path.exists() for a path inside the subdirectory `dir`
target_exists(ents, dir, name) == name \in DOMAIN ents[dir].ents

\* lines 43-50: the collision loop, entered with counter = 1 when the first
\* target exists; returns the final target name
RECURSIVE collision_loop(_, _, _, _, _, _)
collision_loop(ents, dir, target, base_name, extension, counter) ==
    IF target_exists(ents, dir, target)
    THEN collision_loop(ents, dir, new_name(base_name, counter, extension),
                        base_name, extension, counter + 1)
    ELSE target

\* a move that skips the collision loop and keeps the file's own name
resolve_target_no_loop(ents, dir, name) == name

\* lines 36-50: the destination name of a file inside its category folder
resolve_target(ents, dir, name) ==
    IF target_exists(ents, dir, name)
    THEN collision_loop(ents, dir, name, stem(name), suffix(name), 1)
    ELSE name

\* shutil.move(src, dst) of a direct file into a subdirectory: the entry
\* leaves the target directory and dst names its content; os.rename replaces
\* whatever dst named before
move(ents, name, dir, dst) ==
    LET id == ents[name].id
        newsub == [n \in (DOMAIN ents[dir].ents) \cup {dst} |->
                      IF n = dst THEN id ELSE ents[dir].ents[n]]
    IN [n \in (DOMAIN ents) \ {name} |->
           IF n = dir THEN DirNode(newsub) ELSE ents[n]]

\* lines 29-57: the body of the loop of organize_files for one listed entry.
\* move_fails is the environment's choice of whether shutil.move raises.
\* The result holds the directory afterwards, whether an exception left the
\* loop, the outcome printed for the file and the increment of files_moved.
organize_body(table, ents, name, dry_run, move_fails) ==
    LET category == get_file_category(table, lower(suffix(name)))
        skip == [entries |-> ents, raised |-> FALSE, outcomes |-> {},
                 moved |-> 0]
    IN
    IF ~is_file(ents, name) THEN skip
    ELSE IF category = "" THEN skip
    ELSE IF mkdir_raises(ents, category)
    THEN [entries |-> ents, raised |-> TRUE, outcomes |-> {}, moved |-> 0]
    ELSE
      LET made == mkdir(ents, category)
          target == resolve_target(made, category, name)
          out(kind, dst) == [name |-> name, kind |-> kind,
                             category |-> category, dst |-> dst,
                             id |-> ents[name].id,
                             before |-> made[category].ents]
      IN
      IF dry_run
      THEN [entries |-> made, raised |-> FALSE,
            outcomes |-> {out("would", name)}, moved |-> 0]
      ELSE IF move_fails
      THEN [entries |-> made, raised |-> FALSE,
            outcomes |-> {out("failed", target)}, moved |-> 0]
      ELSE [entries |-> move(made, name, category, target), raised |-> FALSE,
            outcomes |-> {out("moved", target)}, moved |-> 1]

\* organize_files without its existence check
not_found_unchecked(exists) == FALSE

\* line 22: `if not self.directory.exists()`
not_found(exists) == ~exists

\* lines 73-79 and 84-92: file_groups of list_files_by_type, as the set of
\* names appended to each category's list, and the printed total
file_groups(table, ents) ==
    LET files == {n \in DOMAIN ents : is_file(ents, n)}
        cats == {table[i].category : i \in 1..Len(table)} \cup {Other}
    IN [c \in cats |->
          {n \in files : get_file_category(table, lower(suffix(n))) = c}]

RECURSIVE SumSizes(_, _)
SumSizes(groups, cats) ==
    IF cats = {} THEN 0
    ELSE LET c == CHOOSE c \in cats : TRUE
         IN Cardinality(groups[c]) + SumSizes(groups, cats \ {c})

total_files(groups) == SumSizes(groups, DOMAIN groups)

\* create_custom_category on the organizer `self`: file_types is an instance
\* attribute, so only that organizer's dict changes
create_custom_category_on(tables, self, category_name, extensions) ==
    [tables EXCEPT ![self] = SetItem(tables[self], category_name, extensions)]

\* ---------------------------------------------------------------------------
\* State
\* ---------------------------------------------------------------------------
\* the organizer main() builds
organizer == 1
\* the FileOrganizer objects of a process that builds two of them
Instances == {organizer, 2}

VARIABLES
    dirExists,    \* self.directory.exists()
    entries,      \* the direct entries of the target directory
    file_types,   \* self.file_types of each organizer
    pc,           \* "idle", or "loop" inside the for loop of organize_files
    dry_run,      \* the argument of the organize_files call in progress
    todo,         \* entries listed by iterdir() and not yet visited
    files_moved,  \* the local counter of organize_files
    outcomes,     \* outcomes printed so far by the call in progress
    before,       \* history: the entries when the call in progress began
    last,         \* history: the last finished call
    prev,         \* history: the call finished before `last`
    lookup,       \* history: the last get_file_category call
    reg,          \* history: each organizer's last create_custom_category
    regEffect,    \* history: all tables before and after the last registration
    insertion,    \* history: category names in order of first insertion
    notes_registered, \* history: create_custom_category("Notes", [".note"])
                  \* has been called on the organizer
    nregs,        \* number of create_custom_category calls so far
    calls,        \* number of organize_files / list_files_by_type calls so far
    faults        \* number of times shutil.move has raised so far

vars == << dirExists, entries, file_types, pc, dry_run, todo, files_moved,
           outcomes, before, last, prev, lookup, reg, regEffect, insertion,
           notes_registered, nregs, calls, faults >>

fsVars == << dirExists, entries, pc, dry_run, todo, files_moved, outcomes,
             before, last, prev, calls, faults >>
tableVars == << file_types, lookup, reg, regEffect, insertion,
                notes_registered, nregs >>

NoCall == [op |-> "none", dry |-> FALSE, result |-> "none", count |-> -1,
           outcomes |-> {}, existed |-> FALSE, before |-> EmptyDir,
           after |-> EmptyDir]
NoReg == [category_name |-> "", extensions |-> <<>>, made |-> FALSE]
NoLookup == [self |-> 0, extension |-> "", result |-> "",
             table |-> <<>>, after |-> <<>>, order |-> <<>>,
             reg |-> NoReg, after_notes |-> FALSE]
NoRegEffect == [self |-> 0, before |-> <<>>, after |-> <<>>]

\* the record of a finished call
Finished(op, dry, result, count, outs, start, end) ==
    [op |-> op, dry |-> dry, result |-> result, count |-> count,
     outcomes |-> outs, existed |-> dirExists, before |-> start,
     after |-> end]

\* ---------------------------------------------------------------------------
\* Initial states
\* ---------------------------------------------------------------------------
\* a target directory with the direct files F (indices of FileNames), the
\* direct subdirectories D and OtherDirs, and the names P (indices of PreNames) already
\* inside Images when Images is one of D; the names inside Images are a
\* prefix of PreNames (photo.jpg, then photo_1.jpg as well)
InitialDir(F, D, P) ==
    LET fnames == {FileNames[i] : i \in F}
        idOf(n) == CHOOSE i \in F : FileNames[i] = n
        pre == [n \in {PreNames[i] : i \in P} |->
                   100 + (CHOOSE i \in P : PreNames[i] = n)]
    IN [n \in fnames \cup D \cup OtherDirs |->
          IF n \in fnames THEN FileNode(idOf(n))
          ELSE IF n = "Images" THEN DirNode(pre) ELSE DirNode(EmptyDir)]

InitialDirs ==
    { InitialDir(t[1], t[2], t[3]) :
        t \in { u \in (SUBSET (1..Len(FileNames))) \X (SUBSET DirNames)
                        \X (SUBSET (1..Len(PreNames))) :
                  /\ Cardinality(u[1]) <= MaxFiles
                  /\ \A i \in u[1] : FileNames[i] \notin u[2]
                  /\ (u[3] # {} => "Images" \in u[2])
                  /\ \E k \in 0..Len(PreNames) : u[3] = 1..k } }

\* the tables of the organizers `made`, each built by __init__
DefaultTables(made) == [i \in made |-> DefaultTable]
DefaultOrder(made) ==
    [i \in made |->
        [k \in 1..Len(DefaultTable) |-> DefaultTable[k].category]]

\* the state once __init__ has run for the organizers `made`
InitCommon(made) ==
    /\ pc = "idle"
    /\ dry_run = FALSE
    /\ todo = {}
    /\ files_moved = 0
    /\ outcomes = {}
    /\ before = EmptyDir
    /\ last = NoCall
    /\ prev = NoCall
    /\ file_types = DefaultTables(made)
    /\ lookup = NoLookup
    /\ reg = [i \in made |-> NoReg]
    /\ regEffect = NoRegEffect
    /\ notes_registered = [i \in made |-> FALSE]
    /\ insertion = DefaultOrder(made)
    /\ nregs = 0
    /\ calls = 0
    /\ faults = 0

Init ==
    /\ dirExists \in BOOLEAN
    /\ entries \in IF dirExists THEN InitialDirs ELSE {EmptyDir}
    /\ InitCommon({organizer})

\* ---------------------------------------------------------------------------
\* organize_files
\* ---------------------------------------------------------------------------
Finish(op, dry, result, count, outs, start, end) ==
    /\ prev' = last
    /\ last' = Finished(op, dry, result, count, outs, start, end)
    /\ pc' = "idle"
    /\ todo' = {}
    /\ outcomes' = {}
    /\ before' = EmptyDir
    /\ files_moved' = 0
    /\ dry_run' = FALSE

\* lines 20-28: the call, up to the listing of the directory.  iterdir()
\* raises FileNotFoundError on a directory that does not exist.
organize_files(dry) ==
    /\ pc = "idle"
    /\ calls < MaxCalls
    /\ calls' = calls + 1
    /\ IF not_found(dirExists)
       THEN Finish("organize", dry, "notfound", -1, {}, entries, entries)
       ELSE IF ~dirExists
       THEN Finish("organize", dry, "raised", -1, {}, entries, entries)
       ELSE /\ pc' = "loop"
            /\ dry_run' = dry
            /\ todo' = DOMAIN entries
            /\ files_moved' = 0
            /\ outcomes' = {}
            /\ before' = entries
            /\ UNCHANGED << last, prev >>
    /\ UNCHANGED << dirExists, entries, faults >>
    /\ UNCHANGED tableVars

\* lines 28-57: one iteration of the loop, on any entry not yet visited (the
\* order of iterdir() is arbitrary).  An exception outside the try block
\* leaves organize_files.
organize_files_iter ==
    /\ pc = "loop"
    /\ \E name \in todo, move_fails \in {FALSE} \cup {faults < MaxFaults} :
         LET r == organize_body(file_types[organizer], entries, name,
                                dry_run, move_fails)
         IN /\ entries' = r.entries
            /\ IF r.raised
               THEN Finish("organize", dry_run, "raised", -1, outcomes,
                           before, r.entries)
               ELSE /\ todo' = todo \ {name}
                    /\ files_moved' = files_moved + r.moved
                    /\ outcomes' = outcomes \cup r.outcomes
                    /\ UNCHANGED << pc, dry_run, before, last, prev >>
            /\ faults' = faults + Cardinality({o \in r.outcomes :
                                                  o.kind = "failed"})
    /\ UNCHANGED << dirExists, calls >>
    /\ UNCHANGED tableVars

\* lines 59-62: the summary line, which prints files_moved
organize_files_return ==
    /\ pc = "loop"
    /\ todo = {}
    /\ Finish("organize", dry_run, "returned", files_moved, outcomes,
              before, entries)
    /\ UNCHANGED << dirExists, entries, calls, faults >>
    /\ UNCHANGED tableVars

\* ---------------------------------------------------------------------------
\* list_files_by_type
\* ---------------------------------------------------------------------------
\* lines 71-94: iterdir() raises FileNotFoundError on a directory that does
\* not exist; otherwise the report ends with the total
list_files_by_type ==
    /\ pc = "idle"
    /\ calls < MaxCalls
    /\ calls' = calls + 1
    /\ IF ~dirExists
       THEN Finish("list", FALSE, "raised", -1, {}, entries, entries)
       ELSE Finish("list", FALSE, "returned",
                   total_files(file_groups(file_types[organizer], entries)),
                   {}, entries, entries)
    /\ UNCHANGED << dirExists, entries, faults >>
    /\ UNCHANGED tableVars

Next ==
    \/ \E dry \in BOOLEAN : organize_files(dry)
    \/ organize_files_iter
    \/ organize_files_return

Spec == Init /\ [][Next]_vars

\* ---------------------------------------------------------------------------
\* The category table on its own: registrations and lookups on two organizers
\* ---------------------------------------------------------------------------
\* category names and extension lists passed to create_custom_category
RegNames == {"Notes", "Images"}
RegLists == { <<>>, << ".note" >>, << ".jpg" >>, << ".note", ".jpg" >> }
\* extensions passed to get_file_category
LookupExts == { ".note", ".jpg", ".xyz", "" }

InitTable ==
    /\ dirExists = TRUE
    /\ entries = EmptyDir
    /\ InitCommon(Instances)

\* lines 96-100
create_custom_category(self, category_name, extensions) ==
    /\ nregs < MaxRegs
    /\ nregs' = nregs + 1
    /\ file_types' = create_custom_category_on(file_types, self,
                                                category_name, extensions)
    /\ insertion' =
         [insertion EXCEPT ![self] =
            IF \E k \in 1..Len(@) : @[k] = category_name
            THEN @ ELSE Append(@, category_name)]
    /\ reg' = [reg EXCEPT ![self] =
                 [category_name |-> category_name,
                  extensions |-> extensions, made |-> TRUE]]
    /\ regEffect' = [self |-> self, before |-> file_types,
                     after |-> file_types']
    /\ notes_registered' =
         [notes_registered EXCEPT ![self] =
            @ \/ (category_name = "Notes" /\ extensions = << ".note" >>)]
    /\ UNCHANGED lookup
    /\ UNCHANGED fsVars

\* lines 64-69, called on its own
get_file_category_call(self, extension) ==
    /\ file_types' = file_types
    /\ lookup' = [self |-> self, extension |-> extension,
                  result |-> get_file_category(file_types[self], extension),
                  table |-> file_types[self], after |-> file_types'[self],
                  order |-> insertion[self], reg |-> reg[self],
                  after_notes |-> notes_registered[self]]
    /\ UNCHANGED << reg, regEffect, insertion, notes_registered, nregs >>
    /\ UNCHANGED fsVars

NextTable ==
    \/ \E self \in Instances, n \in RegNames, l \in RegLists :
          create_custom_category(self, n, l)
    \/ \E self \in Instances, e \in LookupExts :
          get_file_category_call(self, e)

SpecTable == InitTable /\ [][NextTable]_vars

\* the --list mode of main(): list_files_by_type calls only
NextList == list_files_by_type

SpecList == Init /\ [][NextList]_vars

\* ---------------------------------------------------------------------------
\* Properties
\* ---------------------------------------------------------------------------
\* the direct files of a directory
FilesOf(ents) == {n \in DOMAIN ents : is_file(ents, n)}

\* the outcomes of one kind among a call's outcomes
OfKind(outs, kind) == {o \in outs : o.kind = kind}

\* a finished organize_files call on an existing directory in which the
\* environment made no move fail
CleanRun(call, dry) ==
    /\ call.op = "organize"
    /\ call.dry = dry
    /\ call.existed
    /\ OfKind(call.outcomes, "failed") = {}

\* C1: organize_files(dry_run=True) leaves the target directory exactly as it
\* found it, while it runs and when it ends; no category subfolder is created.
C1_DryRunMutatesNothing ==
    /\ (pc = "loop" /\ dry_run) => entries = before
    /\ (last.op = "organize" /\ last.dry) => last.after = last.before

\* C2: a failure while handling one file never aborts organize_files(
\* dry_run=False): the call reaches its summary and every direct file of the
\* directory has been handled (moved, or reported as failed).
C2_NoFileAbortsTheRun ==
    (last.op = "organize" /\ ~last.dry /\ last.existed) =>
        /\ last.result = "returned"
        /\ \A n \in FilesOf(last.before) :
              \E o \in last.outcomes :
                 o.name = n /\ o.kind \in {"moved", "failed"}

\* the characters of the name stem_k.ext of the collision rule
CollisionName(name, k) ==
    StemChars(Chars(name)) \o << "_" >> \o Decimal(k)
        \o SuffixChars(Chars(name))

\* a name with the given characters is among the names
NamedIn(cs, names) == \E n \in names : Chars(n) = cs

\* a moved outcome follows the collision rule, seen in the category folder
\* `now` that the move left behind
MoveIsCollisionSafe(o, now) ==
    /\ o.name \notin DOMAIN o.before => o.dst = o.name
    /\ o.name \in DOMAIN o.before =>
          \E k \in 1..(Cardinality(DOMAIN o.before) + 1) :
             /\ Chars(o.dst) = CollisionName(o.name, k)
             /\ o.dst \notin DOMAIN o.before
             /\ \A j \in 1..(k - 1) :
                   NamedIn(CollisionName(o.name, j), DOMAIN o.before)
    /\ o.dst \in DOMAIN now /\ now[o.dst] = o.id
    /\ \A n \in DOMAIN o.before : n \in DOMAIN now /\ now[n] = o.before[n]

\* C3: every file moved by organize_files(dry_run=False) lands on its own
\* name when that name is free in the category folder and otherwise on
\* stem_k.ext for the smallest k >= 1 that is free, and everything the folder
\* held before the move is still there, unchanged.
C3_CollisionSafeRename ==
    /\ pc = "loop" =>
         \A o \in OfKind(outcomes, "moved") :
            /\ is_dir(entries, o.category)
            /\ MoveIsCollisionSafe(o, entries[o.category].ents)
    /\ last.op = "organize" =>
         \A o \in OfKind(last.outcomes, "moved") :
            /\ is_dir(last.after, o.category)
            /\ MoveIsCollisionSafe(o, last.after[o.category].ents)

\* C3 witness: photo.jpg met photo.jpg and photo_1.jpg in Images and was moved
\* to photo_2.jpg
C3_Witness ==
    /\ last.op = "organize"
    /\ \E o \in OfKind(last.outcomes, "moved") :
          /\ o.name = "photo.jpg"
          /\ o.category = "Images"
          /\ DOMAIN o.before = {"photo.jpg", "photo_1.jpg"}
          /\ o.dst = "photo_2.jpg"
          /\ last.after["Images"].ents["photo.jpg"] = o.before["photo.jpg"]

\* the category the table assigns to a file name, extension lower-cased
CategoryOfName(n) == get_file_category(DefaultTable, lower(suffix(n)))

\* no direct file's name is already taken inside its category folder
NoCollidingNames(ents) ==
    \A n \in FilesOf(ents) :
       is_dir(ents, CategoryOfName(n)) =>
          n \notin DOMAIN ents[CategoryOfName(n)].ents

\* C4: after organize_files(dry_run=False) on a directory whose category
\* folders hold no colliding names, every file that was a direct entry is at
\* dir/Category/name and is no longer a direct entry.
C4_EveryFileInItsCategory ==
    (CleanRun(last, FALSE) /\ NoCollidingNames(last.before)) =>
        \A n \in FilesOf(last.before) :
           /\ ~is_file(last.after, n)
           /\ is_dir(last.after, CategoryOfName(n))
           /\ n \in DOMAIN last.after[CategoryOfName(n)].ents
           /\ last.after[CategoryOfName(n)].ents[n] = last.before[n].id

\* C5: the count in the summary is the number of files moved when
\* dry_run=False and the number of "would move" outcomes when dry_run=True.
C5_SummaryCount ==
    (last.op = "organize" /\ last.result = "returned") =>
        last.count = Cardinality(OfKind(last.outcomes,
                                        IF last.dry THEN "would" ELSE "moved"))

\* C6: of two organize_files(dry_run=False) calls in succession, the second
\* moves no file and leaves the directory as the first left it.
C6_SecondRunMovesNothing ==
    (CleanRun(prev, FALSE) /\ CleanRun(last, FALSE)) =>
        /\ OfKind(last.outcomes, "moved") = {}
        /\ last.after = last.before
        /\ last.before = prev.after

\* what a call on a missing directory must look like
NotFoundCall(call) ==
    (call.op = "organize" /\ ~call.existed) =>
        /\ call.result = "notfound"
        /\ call.after = call.before
        /\ call.outcomes = {}

\* C7: organize_files on a directory that does not exist reports not-found
\* and returns without raising, for both values of dry_run, and nothing is
\* created or moved.
C7_MissingDirectory ==
    /\ NotFoundCall(last)
    /\ NotFoundCall(prev)
    /\ (last.op = "organize" /\ ~last.existed) =>
          (~dirExists /\ entries = EmptyDir)

\* C7 witness: two calls on a missing directory, one with each dry_run value
C7_Witness ==
    /\ ~dirExists
    /\ prev.op = "organize" /\ prev.result = "notfound"
    /\ last.op = "organize" /\ last.result = "notfound"
    /\ prev.dry # last.dry

\* C8: list_files_by_type never raises and never changes the filesystem,
\* whether or not the target directory exists.
C8_ListNeverRaises ==
    last.op = "list" =>
        /\ last.result = "returned"
        /\ last.after = last.before

\* the extension list a table holds for a category
ExtsOf(table, c) ==
    table[CHOOSE i \in 1..Len(table) : table[i].category = c].extensions

\* the first category, in the order of first insertion, whose current list
\* holds the extension; "Other" when none does
FirstInInsertionOrder(order, table, e) ==
    IF \E k \in 1..Len(order) : InList(e, ExtsOf(table, order[k]))
    THEN order[CHOOSE k \in 1..Len(order) :
                 /\ InList(e, ExtsOf(table, order[k]))
                 /\ \A j \in 1..(k - 1) :
                       ~InList(e, ExtsOf(table, order[j]))]
    ELSE Other

\* the parts of C9 that do not mention "Notes": the lookup returns the first
\* match in insertion order, leaves the table alone, and a registration
\* changes no other organizer's table
C9_LookupAndFrame ==
    /\ lookup.self # 0 =>
          /\ {lookup.table[i].category : i \in 1..Len(lookup.table)}
                = {lookup.order[k] : k \in 1..Len(lookup.order)}
          /\ lookup.result = FirstInInsertionOrder(lookup.order, lookup.table,
                                                   lookup.extension)
          /\ lookup.after = lookup.table
    /\ regEffect.self # 0 =>
          \A i \in Instances \ {regEffect.self} :
             regEffect.after[i] = regEffect.before[i]

\* C9 as stated: the above, and once create_custom_category("Notes",
\* [".note"]) has been called on an organizer, every later
\* get_file_category(".note") on it returns "Notes".
C9_NotesForAllLaterCalls ==
    /\ C9_LookupAndFrame
    /\ (lookup.self # 0 /\ lookup.extension = ".note" /\ lookup.after_notes)
          => lookup.result = "Notes"

\* no category inserted before "Notes" lists the extension
NothingBeforeNotes(order, table, e) ==
    \A k \in 1..Len(order) :
       (\E j \in 1..(k - 1) : order[j] = "Notes") \/ order[k] = "Notes"
          \/ ~InList(e, ExtsOf(table, order[k]))

\* C9 amended: the first-match and frame parts, and get_file_category(".note")
\* returns "Notes" when the organizer's latest registration is
\* create_custom_category("Notes", [".note"]) and no category inserted before
\* "Notes" lists ".note".
C9_NotesUntilNextRegistration ==
    /\ C9_LookupAndFrame
    /\ ( /\ lookup.self # 0
         /\ lookup.extension = ".note"
         /\ lookup.reg.made
         /\ lookup.reg.category_name = "Notes"
         /\ lookup.reg.extensions = << ".note" >>
         /\ NothingBeforeNotes(lookup.order, lookup.table, ".note") )
          => lookup.result = "Notes"

\* C9 witness: after an earlier registration, "Notes" was registered on one
\* organizer, ".note" was looked up there and gave "Notes", and the other
\* organizer still has the default table
C9_Witness ==
    /\ nregs = MaxRegs
    /\ lookup.self # 0
    /\ lookup.extension = ".note"
    /\ lookup.reg.made
    /\ lookup.reg.category_name = "Notes"
    /\ lookup.reg.extensions = << ".note" >>
    /\ lookup.result = "Notes"
    /\ lookup.table = file_types[lookup.self]
    /\ \E i \in Instances \ {lookup.self} : file_types[i] = DefaultTable

\* organize_files(dry_run=False) with the listed names visited in one fixed
\* order and no failing move
RECURSIVE organize_in_fixed_order(_, _, _)
organize_in_fixed_order(ents, names, count) ==
    IF names = {}
    THEN [entries |-> ents, raised |-> FALSE, count |-> count]
    ELSE LET n == CHOOSE n \in names : TRUE
             r == organize_body(DefaultTable, ents, n, FALSE, FALSE)
         IN IF r.raised
            THEN [entries |-> r.entries, raised |-> TRUE, count |-> count]
            ELSE organize_in_fixed_order(r.entries, names \ {n},
                                         count + r.moved)

\* C10: the result of organize_files(dry_run=False) is the same for every
\* order of enumeration: a run that reached its summary ends in the same
\* filesystem, with the same count, as the run in the fixed order (when that
\* one reached its summary too).
C10_OrderIndependent ==
    LET fixed == organize_in_fixed_order(last.before, DOMAIN last.before, 0)
    IN (CleanRun(last, FALSE) /\ last.result = "returned" /\ ~fixed.raised) =>
          /\ last.after = fixed.entries
          /\ last.count = fixed.count

====
